---- MODULE Spec2Model ----
(***************************************************************************)
(* A model of nnet3/nnet-training.cc: the NnetTrainer (construction, Train, *)
(* ProcessOutputs, PrintTotalStats), the per-output ObjectiveFunctionInfo   *)
(* statistics tracker, and the pure functions ComputeObjectiveFunction and  *)
(* ComputeRegularizer.                                                      *)
(*                                                                          *)
(* BaseFloat values are exact rationals extended with +Inf, -Inf and NaN;   *)
(* a value is a record [n, d]: n/d in lowest terms with d > 0 when finite,  *)
(* [1,0] = +Inf, [-1,0] = -Inf, [0,0] = NaN.  Rounding of finite values is  *)
(* not modelled; the IEEE rules for the non-finite values are.              *)
(* Strings are sequences of one-character strings.                          *)
(***************************************************************************)
EXTENDS Integers, Sequences, FiniteSets, TLC

\* ------------------------------------------------------------------------
\* Bounds of the model
\* ------------------------------------------------------------------------
\* Train calls made on one trainer
MaxTrain == 2

\* UpdateStats calls made on one tracker
MaxCalls == 5

\* Minibatch counters passed to a tracker run from 0 to MaxCounter
MaxCounter == 7

\* minibatches_per_phase runs from 1 to MaxPhaseLen
MaxPhaseLen == 3

\* minibatches_per_phase of the tracker that is called with the counters
\* 0, 1, 2, ... only, for one call more than a phase holds
DrivenPhaseLen == 10

\* Rows of a supervision matrix
MaxRows == 2

\* Supervision values are (k - 1)/2 for k in 0..MaxCode
MaxCode == 2

\* ------------------------------------------------------------------------
\* BaseFloat arithmetic
\* ------------------------------------------------------------------------
Abs(i) == IF i < 0 THEN -i ELSE i

Sgn(i) == IF i < 0 THEN -1 ELSE IF i > 0 THEN 1 ELSE 0

RECURSIVE GCD(_, _)
GCD(a, b) == IF b = 0 THEN a ELSE GCD(b, a % b)

\* n/d with the common factor g taken out, the sign in the numerator
Reduced(n, d, g) == [n |-> (Sgn(d) * n) \div g, d |-> Abs(d) \div g]

Rat(n, d) ==
  IF d = 0 THEN [n |-> Sgn(n), d |-> 0]
  ELSE Reduced(n, d, GCD(Abs(n), Abs(d)))

F(i) == [n |-> i, d |-> 1]

PosInf == [n |-> 1, d |-> 0]
NegInf == [n |-> -1, d |-> 0]
NaN == [n |-> 0, d |-> 0]

IsNaN(a) == a.d = 0 /\ a.n = 0

IsFinite(a) == a.d # 0

FAdd(a, b) ==
  IF IsNaN(a) \/ IsNaN(b) THEN NaN
  ELSE IF a.d = 0 /\ b.d = 0 THEN (IF a.n = b.n THEN a ELSE NaN)
  ELSE IF a.d = 0 THEN a
  ELSE IF b.d = 0 THEN b
  ELSE Rat(a.n * b.d + b.n * a.d, a.d * b.d)

FNeg(a) == [n |-> -a.n, d |-> a.d]

FSub(a, b) == FAdd(a, FNeg(b))

FMul(a, b) == Rat(a.n * b.n, a.d * b.d)

FDiv(a, b) ==
  IF IsNaN(a) \/ IsNaN(b) THEN NaN
  ELSE IF b.n = 0 THEN Rat(a.n, 0)
  ELSE Rat(a.n * b.d * Sgn(b.n), a.d * Abs(b.n))

FGt(a, b) ==
  IF IsNaN(a) \/ IsNaN(b) THEN FALSE
  ELSE IF a.d = 0 /\ b.d = 0 THEN a.n > b.n
  ELSE a.n * b.d > b.n * a.d

FNeq(a, b) == IsNaN(a) \/ IsNaN(b) \/ a # b

ISqrt(k) == CHOOSE r \in 0..k : r * r = k

FSqrt(a) ==
  IF IsNaN(a) THEN NaN
  ELSE IF a.d = 0 THEN (IF a.n > 0 THEN PosInf ELSE NaN)
  ELSE IF a.n < 0 THEN NaN
  ELSE Rat(ISqrt(a.n), ISqrt(a.d))

\* ------------------------------------------------------------------------
\* Vectors (the parameters of an Nnet) and matrices (sequences of rows)
\* ------------------------------------------------------------------------
RECURSIVE SumSeq(_)
SumSeq(s) == IF s = <<>> THEN F(0) ELSE FAdd(Head(s), SumSeq(Tail(s)))

VecAdd(u, v) == [i \in DOMAIN u |-> FAdd(u[i], v[i])]

VecScale(c, v) == [i \in DOMAIN v |-> FMul(c, v[i])]

VecDot(u, v) == SumSeq([i \in DOMAIN u |-> FMul(u[i], v[i])])

VecZero(v) == [i \in DOMAIN v |-> F(0)]

NumRows(M) == Len(M)

NumCols(M) == IF Len(M) = 0 THEN 0 ELSE Len(M[1])

MatSum(M) == SumSeq([r \in DOMAIN M |-> SumSeq(M[r])])

MatScale(c, M) == [r \in DOMAIN M |-> VecScale(c, M[r])]

MatSub(A, B) == [r \in DOMAIN A |-> [c \in DOMAIN A[r] |-> FSub(A[r][c], B[r][c])]]

MatSet(M, x) == [r \in DOMAIN M |-> [c \in DOMAIN M[r] |-> x]]

\* TraceMatMat(A, B, kTrans) = sum_{r,c} A(r,c) * B(r,c)
TraceMatMat(A, B) == SumSeq([r \in DOMAIN A |-> VecDot(A[r], B[r])])

\* CuMatrixBase::MulRowsVec: row r is multiplied by w(r)
MulRowsVec(M, w) == [r \in DOMAIN M |-> VecScale(w[r], M[r])]

\* ------------------------------------------------------------------------
\* Strings: sequences of one-character strings
\* ------------------------------------------------------------------------
Digits == {"0", "1", "2", "3", "4", "5", "6", "7", "8", "9"}

DigitVal(c) ==
  CASE c = "0" -> 0 [] c = "1" -> 1 [] c = "2" -> 2 [] c = "3" -> 3
    [] c = "4" -> 4 [] c = "5" -> 5 [] c = "6" -> 6 [] c = "7" -> 7
    [] c = "8" -> 8 [] c = "9" -> 9

RECURSIVE Pow10(_)
Pow10(k) == IF k = 0 THEN 1 ELSE 10 * Pow10(k - 1)

RECURSIVE DecVal(_)
DecVal(s) == IF s = <<>> THEN 0
             ELSE 10 * DecVal(SubSeq(s, 1, Len(s) - 1)) + DigitVal(s[Len(s)])

AllDigits(s) == Len(s) > 0 /\ \A i \in DOMAIN s : s[i] \in Digits

\* SplitStringToVector(full, ":", omit_empty_strings = false, &out): the
\* empty string has no tokens; otherwise one token per delimiter plus one.
RECURSIVE SplitFrom(_, _, _)
SplitFrom(s, delim, cur) ==
  IF s = <<>> THEN <<cur>>
  ELSE IF Head(s) = delim THEN <<cur>> \o SplitFrom(Tail(s), delim, <<>>)
  ELSE SplitFrom(Tail(s), delim, Append(cur, Head(s)))

SplitStringToVector(full, delim) ==
  IF full = <<>> THEN <<>> ELSE SplitFrom(full, delim, <<>>)

\* ConvertStringToReal(str, &out): [ok, value]; the numbers of the model are
\* written [-]digits[.digits].
NotReal == [ok |-> FALSE, value |-> F(0)]

\* digits "." digits, with the sign sgn
ConvertFraction(sgn, ip, fp) ==
  IF AllDigits(ip) /\ AllDigits(fp)
  THEN [ok |-> TRUE,
        value |-> Rat(sgn * (DecVal(ip) * Pow10(Len(fp)) + DecVal(fp)),
                      Pow10(Len(fp)))]
  ELSE NotReal

\* the characters after the sign; dots: where the "." are
ConvertUnsigned(sgn, body, dots) ==
  IF dots = {} THEN
    IF AllDigits(body) THEN [ok |-> TRUE, value |-> F(sgn * DecVal(body))]
    ELSE NotReal
  ELSE IF Cardinality(dots) # 1 THEN NotReal
  ELSE ConvertFraction(sgn, SubSeq(body, 1, (CHOOSE i \in dots : TRUE) - 1),
                       SubSeq(body, (CHOOSE i \in dots : TRUE) + 1, Len(body)))

DotsOf(body) == {i \in DOMAIN body : body[i] = "."}

ConvertStringToReal(tok) ==
  IF Len(tok) > 0 /\ tok[1] = "-"
  THEN ConvertUnsigned(-1, Tail(tok), DotsOf(Tail(tok)))
  ELSE ConvertUnsigned(1, tok, DotsOf(tok))

\* std::map / unordered_map: functions; m[k] = v inserts or overwrites
EmptyMap == [k \in {} |-> 0]

MapPut(m, k, v) == [x \in DOMAIN m \cup {k} |-> IF x = k THEN v ELSE m[x]]

\* ------------------------------------------------------------------------
\* ObjectiveFunctionInfo: the statistics of one output name
\* ------------------------------------------------------------------------
\* A default-constructed tracker (what objf_info_[name] creates).
NewObjectiveFunctionInfo ==
  [current_phase |-> 0,
   tot_weight |-> F(0), tot_objf |-> F(0), tot_aux_objf |-> F(0),
   tot_weight_this_phase |-> F(0), tot_objf_this_phase |-> F(0),
   tot_aux_objf_this_phase |-> F(0)]

\* PrintStatsForThisPhase: the logged line, as a record.  The averages are
\* objf / weight (a zero weight gives Inf or NaN, not an error).
PrintStatsForThisPhase(info, output_name, minibatches_per_phase) ==
  [name |-> output_name,
   phase |-> info.current_phase,
   start_minibatch |-> info.current_phase * minibatches_per_phase,
   end_minibatch |-> info.current_phase * minibatches_per_phase
                       + minibatches_per_phase - 1,
   with_aux |-> FNeq(info.tot_aux_objf_this_phase, F(0)),
   objf |-> FDiv(info.tot_objf_this_phase, info.tot_weight_this_phase),
   aux_objf |-> FDiv(info.tot_aux_objf_this_phase, info.tot_weight_this_phase),
   frames |-> info.tot_weight_this_phase]

\* The phase a minibatch counter falls in (int32 division, counter >= 0).
\* A change of PhaseOf: the counter is taken to count from one.
PhaseOf_CountsFromOne(minibatch_counter, minibatches_per_phase) ==
  (minibatch_counter + 1) \div minibatches_per_phase

PhaseOf(minibatch_counter, minibatches_per_phase) ==
  minibatch_counter \div minibatches_per_phase

\* A change of StartPhase: the phase-scoped totals are kept.
StartPhase_KeepsTotals(info, phase) == [info EXCEPT !.current_phase = phase]

\* Lines 224-227: the phase-scoped totals start again in the new phase.
StartPhase(info, phase) ==
  [info EXCEPT !.current_phase = phase,
               !.tot_weight_this_phase = F(0),
               !.tot_objf_this_phase = F(0),
               !.tot_aux_objf_this_phase = F(0)]

\* Lines 229-234.
Accumulate(info, w, objf, aux) ==
  [info EXCEPT !.tot_weight_this_phase = FAdd(@, w),
               !.tot_objf_this_phase = FAdd(@, objf),
               !.tot_aux_objf_this_phase = FAdd(@, aux),
               !.tot_weight = FAdd(@, w),
               !.tot_objf = FAdd(@, objf),
               !.tot_aux_objf = FAdd(@, aux)]

\* Lines 221-235 with the phase of line 220: [failed, info, reports].
\* failed: the KALDI_ASSERT on the phase fired (the process aborts).
UpdateStatsInPhase(info, output_name, minibatches_per_phase, phase, w, objf, aux) ==
  IF phase = info.current_phase
  THEN [failed |-> FALSE, info |-> Accumulate(info, w, objf, aux), reports |-> <<>>]
  ELSE IF phase # info.current_phase + 1
  THEN [failed |-> TRUE, info |-> info, reports |-> <<>>]
  ELSE [failed |-> FALSE,
        info |-> Accumulate(StartPhase(info, phase), w, objf, aux),
        reports |-> <<PrintStatsForThisPhase(info, output_name,
                                             minibatches_per_phase)>>]

UpdateStats(info, output_name, minibatches_per_phase, minibatch_counter, w, objf, aux) ==
  UpdateStatsInPhase(info, output_name, minibatches_per_phase,
                     PhaseOf(minibatch_counter, minibatches_per_phase),
                     w, objf, aux)

\* ObjectiveFunctionInfo::PrintTotalStats: the logged lines and the result.
InfoPrintTotalStats(info, name) ==
  [name |-> name,
   with_aux |-> FNeq(info.tot_aux_objf, F(0)),
   objf |-> FDiv(info.tot_objf, info.tot_weight),
   aux_objf |-> FDiv(info.tot_aux_objf, info.tot_weight),
   frames |-> info.tot_weight,
   log_prob_per_frame |-> FDiv(info.tot_objf, info.tot_weight),
   ans |-> FNeq(info.tot_weight, F(0))]

\* ------------------------------------------------------------------------
\* GeneralMatrix: one logical matrix in one of three encodings
\* ------------------------------------------------------------------------
\* kFullMatrix:       [type, mat]
\* kSparseMatrix:     [type, num_cols, rows]; a row is a sequence of
\*                    [index, value] pairs, the elements not listed are 0
\* kCompressedMatrix: [type, num_cols, min_value, increment, data]; an
\*                    element is min_value + increment * code
FullMatrix(M) == [type |-> "kFullMatrix", mat |-> M]

RECURSIVE SparseRow(_, _)
SparseRow(row, c) ==
  IF c > Len(row) THEN <<>>
  ELSE IF row[c] = F(0) THEN SparseRow(row, c + 1)
  ELSE <<[index |-> c, value |-> row[c]]>> \o SparseRow(row, c + 1)

SparseMatrix(M) ==
  [type |-> "kSparseMatrix", num_cols |-> NumCols(M),
   rows |-> [r \in DOMAIN M |-> SparseRow(M[r], 1)]]

MatElems(M) == {M[r][c] : r \in DOMAIN M, c \in 1..NumCols(M)}

MinElem(M) == CHOOSE x \in MatElems(M) : \A y \in MatElems(M) : ~FGt(x, y)

\* The codes are whole multiples of the increment above the least element.
CompressedMatrix(M, increment) ==
  [type |-> "kCompressedMatrix", num_cols |-> NumCols(M),
   min_value |-> MinElem(M), increment |-> increment,
   data |-> [r \in DOMAIN M |-> [c \in DOMAIN M[r] |->
               FDiv(FSub(M[r][c], MinElem(M)), increment).n]]]

GeneralNumCols(g) == IF g.type = "kFullMatrix" THEN NumCols(g.mat) ELSE g.num_cols

GeneralNumRows(g) ==
  CASE g.type = "kFullMatrix" -> NumRows(g.mat)
    [] g.type = "kSparseMatrix" -> Len(g.rows)
    [] g.type = "kCompressedMatrix" -> Len(g.data)

\* CuSparseMatrix::Sum
SparseSum(sp) ==
  SumSeq([r \in DOMAIN sp.rows |->
            SumSeq([k \in DOMAIN sp.rows[r] |-> sp.rows[r][k].value])])

\* TraceMatSmat(A, B, kTrans) = sum over the stored elements of B of
\* A(r, index) * value
TraceMatSmat(A, sp) ==
  SumSeq([r \in DOMAIN sp.rows |->
            SumSeq([k \in DOMAIN sp.rows[r] |->
                      FMul(A[r][sp.rows[r][k].index], sp.rows[r][k].value)])])

\* CuSparseMatrix::CopyToMat
SparseElem(row, c) ==
  IF \E k \in DOMAIN row : row[k].index = c
  THEN row[CHOOSE k \in DOMAIN row : row[k].index = c].value
  ELSE F(0)

SparseCopyToMat(sp) ==
  [r \in DOMAIN sp.rows |-> [c \in 1..sp.num_cols |-> SparseElem(sp.rows[r], c)]]

\* GeneralMatrix::GetMatrix on a compressed matrix
CompressedGetMatrix(g) ==
  [r \in DOMAIN g.data |-> [c \in DOMAIN g.data[r] |->
     FAdd(g.min_value, FMul(g.increment, F(g.data[r][c])))]]

\* CopyFromGeneralMat / GeneralMatrix::CopyToMat: the decoded dense matrix
GeneralCopyToMat(g) ==
  CASE g.type = "kFullMatrix" -> g.mat
    [] g.type = "kSparseMatrix" -> SparseCopyToMat(g)
    [] g.type = "kCompressedMatrix" -> CompressedGetMatrix(g)

\* ------------------------------------------------------------------------
\* ComputeObjectiveFunction and ComputeRegularizer
\* ------------------------------------------------------------------------
\* A result is [err, tot_weight, tot_objf, deriv]; deriv is <<>> when no
\* derivative is asked for (output_deriv == NULL).
ObjfResult(w, objf, deriv) ==
  [err |-> "none", tot_weight |-> w, tot_objf |-> objf, deriv |-> deriv]

ObjfError(e) == [err |-> e, tot_weight |-> F(0), tot_objf |-> F(0), deriv |-> <<>>]

\* *tot_weight = cu_post.Sum(); *tot_objf = TraceMatMat(output, cu_post, kTrans)
DenseLinear(cu_post, output, deriv) ==
  ObjfResult(MatSum(cu_post), TraceMatMat(output, cu_post), deriv)

\* A change of LinearSparse: the weight is the number of stored elements.
LinearSparse_CountsElements(supervision, output, want_deriv) ==
  ObjfResult(F(Len(supervision.rows[1])), TraceMatSmat(output, supervision),
             IF want_deriv THEN SparseCopyToMat(supervision) ELSE <<>>)

\* case kLinear, kSparseMatrix
LinearSparse(supervision, output, want_deriv) ==
  ObjfResult(SparseSum(supervision), TraceMatSmat(output, supervision),
             IF want_deriv THEN SparseCopyToMat(supervision) ELSE <<>>)

\* case kLinear, kFullMatrix, with a derivative: cu_post is *output_deriv
LinearFullDeriv(cu_post, output) == DenseLinear(cu_post, output, cu_post)

\* case kLinear, kFullMatrix
LinearFull(supervision, output, want_deriv) ==
  IF want_deriv
  THEN LinearFullDeriv(GeneralCopyToMat(supervision), output)
  ELSE DenseLinear(supervision.mat, output, <<>>)

\* case kLinear, kCompressedMatrix, with post the decoded matrix
LinearDecoded(post, output, want_deriv) ==
  IF want_deriv
  THEN DenseLinear(post, output, post)
  ELSE DenseLinear(post, output, <<>>)

\* case kLinear, kCompressedMatrix
LinearCompressed(supervision, output, want_deriv) ==
  LinearDecoded(CompressedGetMatrix(supervision), output, want_deriv)

\* The quadratic objective without its factor of one half
QuadraticOfDiff_NoHalf(diff, want_deriv) ==
  ObjfResult(F(NumRows(diff)),
             FNeg(TraceMatMat(diff, diff)),
             IF want_deriv THEN diff ELSE <<>>)

\* case kQuadratic, with diff = supervision - output
QuadraticOfDiff(diff, want_deriv) ==
  ObjfResult(F(NumRows(diff)),
             FMul(Rat(-1, 2), TraceMatMat(diff, diff)),
             IF want_deriv THEN diff ELSE <<>>)

\* case kQuadratic
Quadratic(supervision, output, want_deriv) ==
  QuadraticOfDiff(MatSub(GeneralCopyToMat(supervision), output), want_deriv)

\* The kCrossEntropy case needs logarithms, which have no exact value here:
\* no node of the model's network has that objective type.
ComputeObjectiveFunction(supervision, objective_type, output, want_deriv) ==
  IF NumCols(output) # GeneralNumCols(supervision) THEN ObjfError("dim-mismatch")
  ELSE CASE objective_type = "kLinear" ->
              (CASE supervision.type = "kSparseMatrix" ->
                      LinearSparse(supervision, output, want_deriv)
                 [] supervision.type = "kFullMatrix" ->
                      LinearFull(supervision, output, want_deriv)
                 [] supervision.type = "kCompressedMatrix" ->
                      LinearCompressed(supervision, output, want_deriv))
         [] objective_type = "kQuadratic" ->
              Quadratic(supervision, output, want_deriv)
         [] OTHER -> ObjfError("objf-type")

ComputeRegularizer(objective_type, output, want_deriv) ==
  CASE objective_type = "kLinear" ->
         ObjfResult(F(NumRows(output)), MatSum(output),
                    IF want_deriv THEN MatSet(output, F(1)) ELSE <<>>)
    [] objective_type = "kQuadratic" ->
         ObjfResult(F(NumRows(output)),
                    FMul(Rat(-1, 2), TraceMatMat(output, output)),
                    IF want_deriv THEN MatScale(F(1), output) ELSE <<>>)
    [] OTHER -> ObjfError("reg-type")

\* ------------------------------------------------------------------------
\* State
\* ------------------------------------------------------------------------
VARIABLES
  pc,                          \* "new" | "ready" | "fatal" (the process died)
  err,                         \* which KALDI_ERR / KALDI_ASSERT ended it
  config_,                     \* NnetTrainerOptions
  nnet_,                       \* the parameters of *nnet_
  delta_nnet_,                 \* the parameters of *delta_nnet_, or NULL
  objective_scales_,           \* output name -> scale
  objf_info_,                  \* output name -> ObjectiveFunctionInfo
  num_minibatches_processed_,
  last,                        \* history: the latest Train call
  print_result,                \* history: the latest PrintTotalStats call
  tracker,                     \* a lone ObjectiveFunctionInfo and its calls
  objf                         \* one supervision and the results computed on it

vars == <<pc, err, config_, nnet_, delta_nnet_, objective_scales_, objf_info_,
          num_minibatches_processed_, last, print_result, tracker, objf>>

trainerVars == <<pc, err, config_, nnet_, delta_nnet_, objective_scales_,
                 objf_info_, num_minibatches_processed_, last, print_result>>

NULL == <<>>

\* ------------------------------------------------------------------------
\* The network (the Nnet the trainer is given) and the examples
\* ------------------------------------------------------------------------
RegSuffix == <<"-", "r", "e", "g">>

Nodes ==
  << [name |-> <<"i", "n">>, is_output |-> FALSE, objective_type |-> "none"],
     [name |-> <<"a">>, is_output |-> TRUE, objective_type |-> "kLinear"],
     [name |-> <<"a">> \o RegSuffix, is_output |-> TRUE, objective_type |-> "kLinear"],
     [name |-> <<"b">>, is_output |-> TRUE, objective_type |-> "kQuadratic"],
     [name |-> <<"b">> \o RegSuffix, is_output |-> TRUE, objective_type |-> "kLinear"],
     [name |-> <<"c">>, is_output |-> TRUE, objective_type |-> "kLinear"],
     [name |-> <<"d">>, is_output |-> TRUE, objective_type |-> "kLinear"],
     [name |-> <<"d">> \o RegSuffix, is_output |-> FALSE, objective_type |-> "none"],
     [name |-> <<"e">>, is_output |-> TRUE, objective_type |-> "kUnhandled"] >>

\* Nnet::GetNodeIndex: -1 when there is no node of that name
GetNodeIndex(name) ==
  IF \E i \in DOMAIN Nodes : Nodes[i].name = name
  THEN (CHOOSE i \in DOMAIN Nodes : Nodes[i].name = name) - 1
  ELSE -1

GetNode(node_index) == Nodes[node_index + 1]

IsOutputNode(node_index) == GetNode(node_index).is_output

InitialNnet == <<F(1), F(-2)>>

\* ------------------------------------------------------------------------
\* NnetTrainer::NnetTrainer
\* ------------------------------------------------------------------------
\* A change of NewDeltaNnet: only the momentum decides.
NewDeltaNnet_MomentumOnly(config, nnet) ==
  IF config.momentum = F(0) THEN NULL ELSE VecZero(nnet)

\* delta_nnet_ after the constructor: NULL, or a zeroed copy of the model.
NewDeltaNnet(config, nnet) ==
  IF config.momentum = F(0) /\ config.max_param_change = F(0)
  THEN NULL
  ELSE VecZero(nnet)

\* The KALDI_ASSERT of the constructor (reached only when a delta is made).
ConfigAssertHolds(config) ==
  \/ config.momentum = F(0) /\ config.max_param_change = F(0)
  \/ ~FGt(F(0), config.momentum) /\ ~FGt(F(0), config.max_param_change)

\* The loop over the tokens, two at a time from token i: [err, scales].
RECURSIVE ParseScalePairs(_, _, _)

\* A change of PutConverted: a name already in the map keeps its scale.
PutConverted_FirstWins(objective_scales, i, scales, conv) ==
  IF ~conv.ok THEN [err |-> "objective-scale-convert", scales |-> scales]
  ELSE ParseScalePairs(objective_scales, i + 2,
                       IF objective_scales[i] \in DOMAIN scales THEN scales
                       ELSE MapPut(scales, objective_scales[i], conv.value))

\* Lines 56-63 for the pair at token i, conv being ConvertStringToReal of
\* the second token.
PutConverted(objective_scales, i, scales, conv) ==
  IF ~conv.ok THEN [err |-> "objective-scale-convert", scales |-> scales]
  ELSE ParseScalePairs(objective_scales, i + 2,
                       MapPut(scales, objective_scales[i], conv.value))

ParseScalePairs(objective_scales, i, scales) ==
  IF i > Len(objective_scales) THEN [err |-> "none", scales |-> scales]
  ELSE PutConverted(objective_scales, i, scales,
                    ConvertStringToReal(objective_scales[i + 1]))

\* Lines 50-64 on the tokens the split gave.
ParseTokens(objective_scales) ==
  IF Len(objective_scales) % 2 # 0
  THEN [err |-> "objective-scales-format", scales |-> EmptyMap]
  ELSE ParseScalePairs(objective_scales, 1, EmptyMap)

\* The parsing of config.objective_scales_str: [err, scales].
ParseObjectiveScales(objective_scales_str) ==
  IF objective_scales_str = <<>> THEN [err |-> "none", scales |-> EmptyMap]
  ELSE ParseTokens(SplitStringToVector(objective_scales_str, ":"))

NoTrain == [called |-> FALSE, ncalls |-> 0]

NoPrint == [called |-> FALSE]

Construct ==
  /\ pc = "new"
  /\ \E parsed \in {ParseObjectiveScales(config_.objective_scales_str)} :
       IF ~ConfigAssertHolds(config_)
       THEN /\ pc' = "fatal"
            /\ err' = "config-assert"
            /\ UNCHANGED <<delta_nnet_, objective_scales_>>
       ELSE IF parsed.err # "none"
       THEN /\ pc' = "fatal"
            /\ err' = parsed.err
            /\ delta_nnet_' = NewDeltaNnet(config_, nnet_)
            /\ UNCHANGED objective_scales_
       ELSE /\ pc' = "ready"
            /\ err' = "none"
            /\ delta_nnet_' = NewDeltaNnet(config_, nnet_)
            /\ objective_scales_' = parsed.scales
  /\ UNCHANGED <<config_, nnet_, objf_info_, num_minibatches_processed_,
                 last, print_result, tracker, objf>>

\* ------------------------------------------------------------------------
\* NnetTrainer::ProcessOutputs
\* ------------------------------------------------------------------------
\* The state threaded through the loop over eg.io:
\*   info, n       objf_info_ and num_minibatches_processed_
\*   err           "none", or the fatal error that stopped the loop
\*   accepted      the derivatives given to computer->AcceptOutputDeriv
\*   updates       the UpdateStats calls made: the name, the counter passed,
\*                 the weight, the objective as ComputeObjectiveFunction or
\*                 ComputeRegularizer returned it, and the objective passed
\*   reports       the phase reports logged
\*   log           the steps taken, in order
ScaleFor(scales, name) == IF name \in DOMAIN scales THEN scales[name] ELSE F(1)

InfoFor(info, name) ==
  IF name \in DOMAIN info THEN info[name] ELSE NewObjectiveFunctionInfo

Logged(st, ev, name) == [st EXCEPT !.log = Append(@, [ev |-> ev, name |-> name])]

\* num_minibatches_processed_++ and the record of the call
Counted(st, name, w, raw_objf, tot_objf) ==
  [st EXCEPT !.n = st.n + 1,
             !.updates = Append(@, [name |-> name, counter |-> st.n,
                                    weight |-> w, raw_objf |-> raw_objf,
                                    objf |-> tot_objf]),
             !.log = Append(@, [ev |-> "stats", name |-> name])]

\* r: what UpdateStats did to objf_info_[name] (which operator[] created)
StatsDone(seen, info, name, r) ==
  IF r.failed
  THEN [seen EXCEPT !.info = MapPut(info, name, InfoFor(info, name)),
                    !.err = "phase-assert"]
  ELSE [seen EXCEPT !.info = MapPut(info, name, r.info),
                    !.reports = @ \o r.reports]

\* objf_info_[name].UpdateStats(name, print_interval,
\*                              num_minibatches_processed_++, w, objf)
DoUpdateStats(st, name, w, raw_objf, tot_objf) ==
  StatsDone(Counted(st, name, w, raw_objf, tot_objf), st.info, name,
            UpdateStats(InfoFor(st.info, name), name, config_.print_interval,
                        st.n, w, tot_objf, F(0)))

ApplyDerivWeights(deriv, io) ==
  IF config_.apply_deriv_weights /\ Len(io.deriv_weights) # 0
  THEN MulRowsVec(deriv, io.deriv_weights)
  ELSE deriv

ScaleDeriv(scale, deriv) ==
  IF FNeq(scale, F(1)) THEN MatScale(scale, deriv) ELSE deriv

\* The derivative handed to the computer: deriv weights, then the scale.
WeightAndScale(deriv, io, scale) == ScaleDeriv(scale, ApplyDerivWeights(deriv, io))

AcceptOutputDeriv(st, name, deriv) ==
  [st EXCEPT !.accepted = Append(@, [name |-> name, deriv |-> deriv]),
             !.log = Append(@, [ev |-> "deriv", name |-> name])]

\* Lines 177-193, r being what ComputeRegularizer returned; scale is the
\* scale of the output the regularizer belongs to.
RegularizerComputed(st1, io, reg_name, scale, r) ==
  IF r.err # "none" THEN [st1 EXCEPT !.err = r.err]
  ELSE DoUpdateStats(
         AcceptOutputDeriv(st1, reg_name,
                           WeightAndScale(r.deriv, io,
                                          ScaleFor(objective_scales_, reg_name))),
         reg_name, r.tot_weight, r.tot_objf, FMul(r.tot_objf, scale))

\* A change of RegularizerAt: a "-reg" node that is not an output node is
\* passed over.
RegularizerAt_SkipsNonOutput(st, io, obj_type, scale, outputs, reg_name, reg_node_index) ==
  IF reg_node_index < 0 THEN st
  ELSE IF ~IsOutputNode(reg_node_index) THEN st
  ELSE RegularizerComputed(Logged(st, "regularizer", reg_name), io, reg_name, scale,
                           ComputeRegularizer(obj_type, outputs[reg_name], TRUE))

\* Lines 157-193.
RegularizerAt(st, io, obj_type, scale, outputs, reg_name, reg_node_index) ==
  IF reg_node_index < 0 THEN st
  ELSE IF ~IsOutputNode(reg_node_index) THEN [st EXCEPT !.err = "reg-assert"]
  ELSE RegularizerComputed(Logged(st, "regularizer", reg_name), io, reg_name, scale,
                           ComputeRegularizer(obj_type, outputs[reg_name], TRUE))

\* Lines 153-195: the regularizer of output io.name, after its own statistics.
ProcessRegularizer(st, io, obj_type, scale, outputs) ==
  IF ~config_.add_regularizer THEN st
  ELSE RegularizerAt(st, io, obj_type, scale, outputs, io.name \o RegSuffix,
                     GetNodeIndex(io.name \o RegSuffix))

\* Lines 153-195 after the statistics of the output itself.
AfterStats(st2, io, obj_type, scale, outputs) ==
  IF st2.err # "none" THEN st2
  ELSE ProcessRegularizer(st2, io, obj_type, scale, outputs)

\* A change of ObjectiveComputed: a failed objective computation is counted
\* in the statistics before the process ends.
ObjectiveComputed_StatsOnError(st1, io, obj_type, scale, outputs, r) ==
  IF r.err # "none"
  THEN [DoUpdateStats(st1, io.name, r.tot_weight, r.tot_objf, r.tot_objf)
          EXCEPT !.err = r.err]
  ELSE AfterStats(
         DoUpdateStats(
           AcceptOutputDeriv(st1, io.name, WeightAndScale(r.deriv, io, scale)),
           io.name, r.tot_weight, r.tot_objf, FMul(r.tot_objf, scale)),
         io, obj_type, scale, outputs)

\* A change of ObjectiveComputed: the statistics are updated before the
\* derivative is given to the computer.
ObjectiveComputed_StatsFirst(st1, io, obj_type, scale, outputs, r) ==
  IF r.err # "none" THEN [st1 EXCEPT !.err = r.err]
  ELSE AfterStats(
         AcceptOutputDeriv(
           DoUpdateStats(st1, io.name, r.tot_weight, r.tot_objf,
                         FMul(r.tot_objf, scale)),
           io.name, WeightAndScale(r.deriv, io, scale)),
         io, obj_type, scale, outputs)

\* Lines 134-195, r being what ComputeObjectiveFunction returned.
ObjectiveComputed(st1, io, obj_type, scale, outputs, r) ==
  IF r.err # "none" THEN [st1 EXCEPT !.err = r.err]
  ELSE AfterStats(
         DoUpdateStats(
           AcceptOutputDeriv(st1, io.name, WeightAndScale(r.deriv, io, scale)),
           io.name, r.tot_weight, r.tot_objf, FMul(r.tot_objf, scale)),
         io, obj_type, scale, outputs)

\* A change of OutputNode: the scale map is not looked at.
OutputNode_Unscaled(st, io, outputs, obj_type) ==
  ObjectiveComputed(Logged(st, "objective", io.name), io, obj_type, F(1), outputs,
                    ComputeObjectiveFunction(io.features, obj_type,
                                             outputs[io.name], TRUE))

\* Lines 118-195: an output node.
OutputNode(st, io, outputs, obj_type) ==
  ObjectiveComputed(Logged(st, "objective", io.name), io, obj_type,
                    ScaleFor(objective_scales_, io.name), outputs,
                    ComputeObjectiveFunction(io.features, obj_type,
                                             outputs[io.name], TRUE))

ProcessIoAt(st, io, outputs, node_index) ==
  IF node_index < 0 THEN [st EXCEPT !.err = "node-assert"]
  ELSE IF ~IsOutputNode(node_index) THEN st
  ELSE OutputNode(st, io, outputs, GetNode(node_index).objective_type)

\* Lines 114-196: one entry of eg.io.
ProcessIo(st, io, outputs) == ProcessIoAt(st, io, outputs, GetNodeIndex(io.name))

RECURSIVE ProcessOutputs(_, _, _)
ProcessOutputs(st, io_list, outputs) ==
  IF io_list = <<>> \/ st.err # "none" THEN st
  ELSE ProcessOutputs(ProcessIo(st, Head(io_list), outputs), Tail(io_list), outputs)

\* ------------------------------------------------------------------------
\* NnetTrainer::Train
\* ------------------------------------------------------------------------
\* DotProduct, AddNnet, ScaleNnet and SetZero on the parameters of an Nnet
DotProduct(a, b) == VecDot(a, b)

AddNnet(src, alpha, dest) == VecAdd(dest, VecScale(alpha, src))

ScaleNnet(scale, nnet) == VecScale(scale, nnet)

SetZero(nnet) == VecZero(nnet)

\* computer.Backward(): the parameter gradient of this minibatch is added
\* to the model the computer writes to.
Backward(target, model_grad) == VecAdd(target, model_grad)

\* The model the NnetComputer is given to write its gradients to.
WritesToDelta(delta) == delta # NULL

\* Lines 90-91.
ParamDelta(config, delta) ==
  FMul(FSqrt(DotProduct(delta, delta)), FSub(F(1), config.momentum))

\* A change of ClippedScale: the scale is left as it was.
ClippedScale_NotReduced(scale, config, param_delta) == scale

\* Line 97: scale *= max_param_change / param_delta
ClippedScale(scale, config, param_delta) ==
  FMul(scale, FDiv(config.max_param_change, param_delta))

\* A change of ApplyDelta: the delta is scaled by the momentum before it is
\* added to the model.
ApplyDelta_ScaledFirst(config, nnet, delta, scale) ==
  [nnet |-> AddNnet(ScaleNnet(config.momentum, delta), scale, nnet),
   delta |-> ScaleNnet(config.momentum, delta)]

\* Lines 104-105: [nnet, delta].
ApplyDelta(config, nnet, delta, scale) ==
  [nnet |-> AddNnet(delta, scale, nnet),
   delta |-> ScaleNnet(config.momentum, delta)]

\* Lines 92-105.
LimitChange(config, nnet, delta, scale, param_delta) ==
  IF FGt(param_delta, config.max_param_change)
  THEN IF FNeq(FSub(param_delta, param_delta), F(0))
       THEN ApplyDelta(config, nnet, SetZero(delta), scale)
       ELSE ApplyDelta(config, nnet, delta,
                       ClippedScale(scale, config, param_delta))
  ELSE ApplyDelta(config, nnet, delta, scale)

\* Lines 87-106, on the delta the backward pass left: [nnet, delta].
UpdateRule(config, nnet, delta) ==
  IF FNeq(config.max_param_change, F(0))
  THEN LimitChange(config, nnet, delta, FSub(F(1), config.momentum),
                   ParamDelta(config, delta))
  ELSE ApplyDelta(config, nnet, delta, FSub(F(1), config.momentum))

InitialLoopState ==
  [info |-> objf_info_, n |-> num_minibatches_processed_, err |-> "none",
   accepted |-> <<>>, updates |-> <<>>, reports |-> <<>>,
   log |-> <<[ev |-> "forward", name |-> <<>>]>>]

\* Lines 87-106 on the delta the backward pass left:
\* [nnet, delta, after_backward].
UpdateAfterBackward(after_backward) ==
  [after_backward |-> after_backward] @@ UpdateRule(config_, nnet_, after_backward)

\* Lines 85-106 when ProcessOutputs returned.
BackwardAndUpdate(run) ==
  IF WritesToDelta(delta_nnet_)
  THEN UpdateAfterBackward(Backward(delta_nnet_, run.model_grad))
  ELSE [nnet |-> Backward(nnet_, run.model_grad), delta |-> NULL,
        after_backward |-> NULL]

TrainLog(st, done) ==
  IF ~done THEN st.log
  ELSE st.log \o <<[ev |-> "backward", name |-> <<>>]>>
         \o (IF WritesToDelta(delta_nnet_)
             THEN <<[ev |-> "update", name |-> <<>>]>>
             ELSE <<>>)

\* One call of Train on a minibatch: run.eg is the example, run.outputs what
\* the forward pass computes for each output node, run.model_grad the
\* parameter gradient the backward pass computes.  A fatal error in
\* ProcessOutputs ends the process before the backward pass.
Train(run) ==
  /\ pc = "ready"
  /\ last.ncalls < MaxTrain
  /\ \E st \in {ProcessOutputs(InitialLoopState, run.eg, run.outputs)} :
     \E updated \in {BackwardAndUpdate(run)} :
     \E done \in {st.err = "none"} :
       /\ objf_info_' = st.info
       /\ num_minibatches_processed_' = st.n
       /\ pc' = IF done THEN "ready" ELSE "fatal"
       /\ err' = st.err
       /\ nnet_' = IF done THEN updated.nnet ELSE nnet_
       /\ delta_nnet_' = IF done THEN updated.delta ELSE delta_nnet_
       /\ last' = [called |-> TRUE,
                   ncalls |-> last.ncalls + 1,
                   run |-> run,
                   completed |-> done,
                   nnet_before |-> nnet_,
                   delta_before |-> delta_nnet_,
                   info_before |-> objf_info_,
                   n_before |-> num_minibatches_processed_,
                   delta_after_backward |-> IF done THEN updated.after_backward
                                            ELSE NULL,
                   accepted |-> st.accepted,
                   updates |-> st.updates,
                   reports |-> st.reports,
                   log |-> TrainLog(st, done)]
  /\ print_result' = NoPrint
  /\ UNCHANGED <<config_, objective_scales_, tracker, objf>>

\* ------------------------------------------------------------------------
\* NnetTrainer::PrintTotalStats
\* ------------------------------------------------------------------------
RECURSIVE Orders(_)
Orders(S) ==
  IF S = {} THEN {<<>>}
  ELSE UNION {{<<x>> \o p : p \in Orders(S \ {x})} : x \in S}

\* A change of PrintLoop: the answer of the first tracker is returned.
PrintLoop_FirstOnly(order, ans, printed) ==
  IF order = <<>> THEN [ans |-> ans, printed |-> printed]
  ELSE [ans |-> InfoPrintTotalStats(objf_info_[Head(order)], Head(order)).ans,
        printed |-> <<InfoPrintTotalStats(objf_info_[Head(order)], Head(order))>>]

\* The loop over objf_info_ in the order the table iterates: [ans, printed].
RECURSIVE PrintLoop(_, _, _)

\* ans = ans || info.PrintTotalStats(name), when ans is false: r is the
\* report of info.PrintTotalStats(name)
PrintOne(rest, printed, r) == PrintLoop(rest, r.ans, Append(printed, r))

PrintLoop(order, ans, printed) ==
  IF order = <<>> THEN [ans |-> ans, printed |-> printed]
  ELSE IF ans THEN PrintLoop(Tail(order), ans, printed)
  ELSE PrintOne(Tail(order), printed,
                InfoPrintTotalStats(objf_info_[Head(order)], Head(order)))

PrintTotalStats ==
  /\ pc = "ready"
  /\ \E order \in Orders(DOMAIN objf_info_) :
     \E r \in {PrintLoop(order, FALSE, <<>>)} :
       print_result' = [called |-> TRUE, ans |-> r.ans,
                        printed |-> {r.printed[i].name : i \in DOMAIN r.printed},
                        info_seen |-> objf_info_]
  /\ UNCHANGED <<pc, err, config_, nnet_, delta_nnet_, objective_scales_,
                 objf_info_, num_minibatches_processed_, last, tracker, objf>>

\* ------------------------------------------------------------------------
\* The configurations and the minibatches of the model
\* ------------------------------------------------------------------------
\* --objective-scales=""
ScalesNone == <<>>

\* --objective-scales="a:1:a:2:a-reg:3"
ScalesRepeated ==
  <<"a", ":", "1", ":", "a", ":", "2", ":", "a", "-", "r", "e", "g", ":", "3">>

\* --objective-scales="a:2.0:b:0.5"
ScalesTwo == <<"a", ":", "2", ".", "0", ":", "b", ":", "0", ".", "5">>

\* --objective-scales="a:2.0:b"
ScalesOdd == <<"a", ":", "2", ".", "0", ":", "b">>

\* --objective-scales="a:x"
ScalesNotNumeric == <<"a", ":", "x">>

\* --objective-scales="a::b:1"
ScalesEmptyToken == <<"a", ":", ":", "b", ":", "1">>

\* --objective-scales="a:2.0:"
ScalesTrailingColon == <<"a", ":", "2", ".", "0", ":">>

ObjectiveScalesStrings ==
  {ScalesNone, ScalesRepeated, ScalesTwo, ScalesOdd, ScalesNotNumeric,
   ScalesEmptyToken, ScalesTrailingColon}

Configs ==
  [momentum : {F(-1), F(0), Rat(1, 2)},
   max_param_change : {F(0), F(5)},
   print_interval : 1..2,
   add_regularizer : BOOLEAN,
   apply_deriv_weights : BOOLEAN,
   objective_scales_str : ObjectiveScalesStrings]

Row(x, y) == <<F(x), F(y)>>

NnetIo(name, features, deriv_weights) ==
  [name |-> name, features |-> features, deriv_weights |-> deriv_weights]

\* What the forward pass leaves at each output node (one row of two columns).
ForwardOutputs ==
  [name \in {Nodes[i].name : i \in {j \in DOMAIN Nodes : Nodes[j].is_output}} |->
     CASE name = <<"a">> -> <<Row(-1, -2)>>
       [] name = <<"a">> \o RegSuffix -> <<Row(2, 1)>>
       [] name = <<"b">> -> <<<<Rat(3, 2), Rat(3, 2)>>>>
       [] name = <<"b">> \o RegSuffix -> <<Row(1, -1)>>
       [] name = <<"c">> -> <<Row(-3, 0)>>
       [] OTHER -> <<Row(-1, -1)>>]

IoIn == NnetIo(<<"i", "n">>, FullMatrix(<<Row(7, 7)>>), <<>>)

IoA == NnetIo(<<"a">>, SparseMatrix(<<Row(0, 1)>>), <<>>)

IoB == NnetIo(<<"b">>, CompressedMatrix(<<Row(1, 2)>>, F(1)), <<F(2)>>)

IoCZero == NnetIo(<<"c">>, FullMatrix(<<Row(0, 0)>>), <<>>)

IoC == NnetIo(<<"c">>, FullMatrix(<<Row(2, 1)>>), <<F(3)>>)

IoD == NnetIo(<<"d">>, SparseMatrix(<<Row(1, 0)>>), <<>>)

IoE == NnetIo(<<"e">>, FullMatrix(<<Row(1, 0)>>), <<>>)

IoBWide == NnetIo(<<"b">>, FullMatrix(<<<<F(1), F(2), F(3)>>>>), <<>>)

IoUnknown == NnetIo(<<"x">>, FullMatrix(<<Row(1, 0)>>), <<>>)

Minibatch(eg, model_grad) ==
  [eg |-> eg, outputs |-> ForwardOutputs, model_grad |-> model_grad]

Minibatches ==
  { Minibatch(<<IoIn, IoA>>, Row(3, 4)),
    Minibatch(<<IoA, IoB>>, Row(6, 8)),
    Minibatch(<<IoCZero>>, Row(-3, -4)),
    Minibatch(<<IoC>>, <<NaN, F(4)>>),
    Minibatch(<<IoA>>, <<PosInf, F(0)>>),
    Minibatch(<<IoD>>, Row(3, 4)),
    Minibatch(<<IoA, IoBWide>>, Row(3, 4)),
    Minibatch(<<IoE>>, Row(3, 4)),
    Minibatch(<<IoUnknown>>, Row(3, 4)) }

\* ------------------------------------------------------------------------
\* The trainer: a configuration, the constructor, then Train and
\* PrintTotalStats calls in any order
\* ------------------------------------------------------------------------
NoTracker == [ncalls |-> 0]

NoObjf == [called |-> FALSE]

Init ==
  /\ pc = "new"
  /\ err = "none"
  /\ config_ \in Configs
  /\ nnet_ = InitialNnet
  /\ delta_nnet_ = NULL
  /\ objective_scales_ = EmptyMap
  /\ objf_info_ = EmptyMap
  /\ num_minibatches_processed_ = 0
  /\ last = NoTrain
  /\ print_result = NoPrint
  /\ tracker = NoTracker
  /\ objf = NoObjf

TrainStep == \E run \in Minibatches : Train(run)

Next ==
  \/ Construct
  \/ TrainStep
  \/ PrintTotalStats

Spec == Init /\ [][Next]_vars

\* ------------------------------------------------------------------------
\* One ObjectiveFunctionInfo on its own: UpdateStats calls with any counter
\* ------------------------------------------------------------------------
\* A contribution is [w, objf, aux]: the weight, the objective and the
\* auxiliary objective of one call.
Contribution(w, o, a) == [w |-> w, objf |-> o, aux |-> a]

NoContribution == Contribution(F(0), F(0), F(0))

Contributions ==
  {Contribution(F(1), F(-2), F(0)), Contribution(F(2), F(-3), F(1)), NoContribution}

AddContribution(a, b) ==
  Contribution(FAdd(a.w, b.w), FAdd(a.objf, b.objf), FAdd(a.aux, b.aux))

\* The sum recorded for a phase (nothing recorded: all zero)
BucketOf(by_phase, phase) ==
  IF phase \in DOMAIN by_phase THEN by_phase[phase] ELSE NoContribution

TrackedName == <<"o">>

NoReport == [phase |-> -1]

\* tracker: the object (info), the phase length it is called with, whether
\* it is driven with the counters 0, 1, 2, ... only (as num_minibatches_
\* processed_++ drives the tracker of a trainer's only output), and a
\* history of the calls: how many, whether a call failed the phase assertion,
\* whether the counters so far were 0, 1, 2, ... , how many reports were
\* logged and the latest, the sum of all contributions, the sum of the
\* contributions by the phase of their call, and the latest contribution.
NewTracker(minibatches_per_phase, driven) ==
  [info |-> NewObjectiveFunctionInfo,
   minibatches_per_phase |-> minibatches_per_phase,
   driven |-> driven,
   ncalls |-> 0, failed |-> FALSE, sequential |-> TRUE,
   nreports |-> 0, last_report |-> NoReport,
   sum |-> NoContribution, by_phase |-> EmptyMap, last_call |-> NoContribution]

LatestReport(reports, before) ==
  IF reports = <<>> THEN before ELSE reports[Len(reports)]

\* The history after a call that returned r
Tracked(t, r, phase, minibatch_counter, c) ==
  [t EXCEPT !.info = r.info,
            !.ncalls = @ + 1,
            !.sequential = @ /\ minibatch_counter = t.ncalls,
            !.nreports = @ + Len(r.reports),
            !.last_report = LatestReport(r.reports, @),
            !.sum = AddContribution(@, c),
            !.by_phase = MapPut(@, phase, AddContribution(BucketOf(@, phase), c)),
            !.last_call = c]

\* info.UpdateStats(name, minibatches_per_phase, minibatch_counter,
\*                  c.w, c.objf, c.aux); a failed assertion ends the process.
UpdateStatsCall(minibatch_counter, c) ==
  /\ ~tracker.failed
  /\ \E r \in {UpdateStats(tracker.info, TrackedName, tracker.minibatches_per_phase,
                           minibatch_counter, c.w, c.objf, c.aux)} :
       tracker' = IF r.failed
                  THEN [tracker EXCEPT !.failed = TRUE]
                  ELSE Tracked(tracker, r,
                               minibatch_counter \div tracker.minibatches_per_phase,
                               minibatch_counter, c)
  /\ UNCHANGED <<trainerVars, objf>>

DefaultConfig ==
  [momentum |-> F(0), max_param_change |-> F(0), print_interval |-> 1,
   add_regularizer |-> FALSE, apply_deriv_weights |-> FALSE,
   objective_scales_str |-> ScalesNone]

NoTrainer ==
  /\ pc = "new"
  /\ err = "none"
  /\ config_ = DefaultConfig
  /\ nnet_ = InitialNnet
  /\ delta_nnet_ = NULL
  /\ objective_scales_ = EmptyMap
  /\ objf_info_ = EmptyMap
  /\ num_minibatches_processed_ = 0
  /\ last = NoTrain
  /\ print_result = NoPrint

\* A call with any counter
UpdateStatsAnyCounter ==
  /\ ~tracker.driven
  /\ tracker.ncalls < MaxCalls
  /\ \E minibatch_counter \in 0..MaxCounter : \E c \in Contributions :
       UpdateStatsCall(minibatch_counter, c)

\* A call with the counter after the one of the call before
UpdateStatsNextCounter ==
  /\ tracker.driven
  /\ tracker.ncalls <= tracker.minibatches_per_phase
  /\ \E c \in Contributions : UpdateStatsCall(tracker.ncalls, c)

InitStats ==
  /\ NoTrainer
  /\ tracker \in {NewTracker(n, FALSE) : n \in 1..MaxPhaseLen}
                   \cup {NewTracker(DrivenPhaseLen, TRUE)}
  /\ objf = NoObjf

NextStats ==
  \/ UpdateStatsAnyCounter
  \/ UpdateStatsNextCounter

SpecStats == InitStats /\ [][NextStats]_vars

\* ------------------------------------------------------------------------
\* ComputeObjectiveFunction on its own: one supervision matrix, stored in
\* any of the three ways, against one output matrix
\* ------------------------------------------------------------------------
\* The supervision values are whole multiples of a half, from -1/2 up.
Half == Rat(1, 2)

SupervisionValues == {Rat(k - 1, 2) : k \in 0..MaxCode}

\* The output has two columns; a supervision of one or three columns does
\* not match it.
SupervisionMatrices ==
  UNION {[1..rows -> [1..cols -> SupervisionValues]] :
           rows \in 1..MaxRows, cols \in {2}}

WideSupervision == <<<<F(1), F(0), Half>>>>

\* One more supervision and the output computed for it: (1, 2) against
\* (3/2, 3/2).
ExampleSupervision == <<<<F(1), F(2)>>>>

ExampleOutput == <<<<Rat(3, 2), Rat(3, 2)>>>>

OutputFor(M) ==
  IF M = ExampleSupervision THEN ExampleOutput
  ELSE [r \in DOMAIN M |-> <<F(r - 3), Rat(2 * r + 1, 2)>>]

Encodings == {"kFullMatrix", "kSparseMatrix", "kCompressedMatrix"}

ObjectiveTypes == {"kLinear", "kQuadratic"}

\* The GeneralMatrix holding M in the given storage
Encode(M, encoding) ==
  CASE encoding = "kFullMatrix" -> FullMatrix(M)
    [] encoding = "kSparseMatrix" -> SparseMatrix(M)
    [] encoding = "kCompressedMatrix" -> CompressedMatrix(M, Half)

\* One call on the supervision objf.supervision, stored as `encoding`.
ComputeObjf(encoding, objective_type, want_deriv) ==
  /\ ~objf.called
  /\ objf' = [called |-> TRUE,
              supervision |-> objf.supervision,
              output |-> OutputFor(objf.supervision),
              encoding |-> encoding,
              objective_type |-> objective_type,
              want_deriv |-> want_deriv,
              result |-> ComputeObjectiveFunction(
                           Encode(objf.supervision, encoding), objective_type,
                           OutputFor(objf.supervision), want_deriv)]
  /\ UNCHANGED <<trainerVars, tracker>>

InitObjf ==
  /\ NoTrainer
  /\ tracker = NoTracker
  /\ objf \in {[called |-> FALSE, supervision |-> M] :
                 M \in SupervisionMatrices
                         \cup {WideSupervision, ExampleSupervision}}

NextObjf ==
  \E encoding \in Encodings : \E objective_type \in ObjectiveTypes :
  \E want_deriv \in BOOLEAN :
    ComputeObjf(encoding, objective_type, want_deriv)

SpecObjf == InitObjf /\ [][NextObjf]_vars

\* ------------------------------------------------------------------------
\* Properties of the trainer (Spec)
\* ------------------------------------------------------------------------
AllFinite(v) == \A i \in DOMAIN v : IsFinite(v[i])

SqNorm(v) == SumSeq([i \in DOMAIN v |-> FMul(v[i], v[i])])

\* The latest Train call completed with a DeltaModel and a clipping limit.
ClippingTrain ==
  /\ last.called
  /\ last.completed
  /\ last.delta_after_backward # NULL
  /\ FNeq(config_.max_param_change, F(0))

\* sqrt(dot(delta, delta)) * (1 - momentum) of the latest Train call is
\* +Inf or NaN.
NonFiniteParamDelta ==
  ~IsFinite(FMul(FSqrt(SqNorm(last.delta_after_backward)),
                 FSub(F(1), config_.momentum)))

\* C1: when a DeltaModel exists, max_param_change != 0 and the computed
\* param_delta is +Inf or NaN, a completed Train call leaves the model
\* parameters exactly as they were before the call and the DeltaModel all
\* zeros.
C1_NonFiniteStepDiscarded ==
  (ClippingTrain /\ NonFiniteParamDelta) =>
    /\ nnet_ = last.nnet_before
    /\ delta_nnet_ = VecZero(delta_nnet_)

\* C1, the failing case: a Train call on a finite model with a non-finite
\* param_delta completes and leaves a non-finite parameter in the model.
C1_NonFiniteReachesModel ==
  /\ ClippingTrain
  /\ NonFiniteParamDelta
  /\ AllFinite(last.nnet_before)
  /\ ~AllFinite(nnet_)

\* The latest Train call completed with a DeltaModel, max_param_change > 0
\* and finite parameters in the DeltaModel after the backward pass.
FiniteClippingTrain ==
  /\ ClippingTrain
  /\ AllFinite(last.delta_after_backward)

\* The change the latest Train call made to the model
AppliedChange == VecAdd(nnet_, VecScale(F(-1), last.nnet_before))

\* ((1 - momentum) * ||delta||)^2 of the latest Train call
UnclippedSq ==
  FMul(FMul(FSub(F(1), config_.momentum), FSub(F(1), config_.momentum)),
       SqNorm(last.delta_after_backward))

MaxSq == FMul(config_.max_param_change, config_.max_param_change)

\* C2: with a DeltaModel, max_param_change > 0 and a finite delta, the norm
\* of the change a Train call applies to the model is (1 - momentum) *
\* ||delta|| when that is at most max_param_change, and max_param_change
\* when it is larger (the norms are compared by their squares).
C2_AppliedNormBounded ==
  FiniteClippingTrain =>
    SqNorm(AppliedChange) = IF FGt(UnclippedSq, MaxSq) THEN MaxSq ELSE UnclippedSq

\* C2, its case: a step of norm twice max_param_change before scaling was
\* applied with norm max_param_change.
C2_TwiceMaxClipped ==
  /\ FiniteClippingTrain
  /\ UnclippedSq = FMul(F(4), MaxSq)
  /\ SqNorm(AppliedChange) = MaxSq

\* C3: across any sequence of Train calls the phase assertion of
\* UpdateStats is never reached.
C3_PhaseAssertNeverFails == err # "phase-assert"

\* C3, the failing case: with print_interval = 1 and no regularizer, the
\* second Train call on examples of two outputs dies in the phase assertion.
C3_PhaseJumpReached ==
  /\ err = "phase-assert"
  /\ config_.print_interval = 1
  /\ ~config_.add_regularizer
  /\ last.ncalls = 2
  /\ Len(last.run.eg) = 2

\* C5: a constructed trainer has a DeltaModel if and only if momentum > 0
\* or max_param_change > 0, after construction and after every Train call;
\* without one, a completed Train call changes the model by exactly the
\* gradient of the minibatch.
C5_DeltaIffMomentumOrClipping ==
  pc = "ready" =>
    /\ (delta_nnet_ # NULL) <=>
         (FGt(config_.momentum, F(0)) \/ FGt(config_.max_param_change, F(0)))
    /\ (delta_nnet_ = NULL /\ last.called /\ last.completed) =>
         nnet_ = VecAdd(last.nnet_before, last.run.model_grad)

\* C5, its case: two Train calls completed on a trainer without a
\* DeltaModel, the second changing the model.
C5_DirectUpdate ==
  /\ pc = "ready"
  /\ delta_nnet_ = NULL
  /\ last.called
  /\ last.completed
  /\ last.ncalls = 2
  /\ nnet_ # last.nnet_before

IsRegName(name) ==
  /\ Len(name) > Len(RegSuffix)
  /\ SubSeq(name, Len(name) - Len(RegSuffix) + 1, Len(name)) = RegSuffix

PrimaryOf(reg_name) == SubSeq(reg_name, 1, Len(reg_name) - Len(RegSuffix))

\* C6: the objective recorded for a regularizer output "O-reg" is the
\* regularizer's objective times the scale-map entry of "O-reg" (1 when it
\* has none), whatever the entry of O is.
C6_RegularizerUsesOwnScale ==
  last.called =>
    \A i \in DOMAIN last.updates :
      IsRegName(last.updates[i].name) =>
        last.updates[i].objf =
          FMul(last.updates[i].raw_objf,
               ScaleFor(objective_scales_, last.updates[i].name))

\* C6, the failing case: a regularizer's objective was recorded times the
\* scale of the output it belongs to, which is not its own scale.
C6_RegularizerScaledByPrimary ==
  /\ last.called
  /\ \E i \in DOMAIN last.updates :
       /\ IsRegName(last.updates[i].name)
       /\ last.updates[i].objf =
            FMul(last.updates[i].raw_objf,
                 ScaleFor(objective_scales_, PrimaryOf(last.updates[i].name)))
       /\ last.updates[i].objf #
            FMul(last.updates[i].raw_objf,
                 ScaleFor(objective_scales_, last.updates[i].name))

\* C7: PrintTotalStats returns true exactly when some tracked output has a
\* nonzero all-time total weight, and leaves the statistics as they were.
C7_TrueIffSomeWeight ==
  print_result.called =>
    /\ print_result.ans <=>
         (\E name \in DOMAIN objf_info_ : FNeq(objf_info_[name].tot_weight, F(0)))
    /\ objf_info_ = print_result.info_seen

\* C7, its case: PrintTotalStats returned true with two outputs tracked,
\* one of them of total weight zero.
C7_MixedWeights ==
  /\ print_result.called
  /\ print_result.ans
  /\ \E name \in DOMAIN objf_info_ : objf_info_[name].tot_weight = F(0)
  /\ \E name \in DOMAIN objf_info_ : objf_info_[name].tot_weight # F(0)

\* What the objective-scales strings of the model are to give: a fatal
\* error, or the scale map.
ExpectedScales(s) ==
  CASE s = ScalesNone -> [fatal |-> FALSE, scales |-> EmptyMap]
    [] s = ScalesRepeated ->
         [fatal |-> FALSE,
          scales |-> (<<"a">> :> F(2)) @@ ((<<"a">> \o RegSuffix) :> F(3))]
    [] s = ScalesTwo ->
         [fatal |-> FALSE, scales |-> (<<"a">> :> F(2)) @@ (<<"b">> :> Rat(1, 2))]
    [] s = ScalesOdd -> [fatal |-> TRUE, scales |-> EmptyMap]
    [] s = ScalesNotNumeric -> [fatal |-> TRUE, scales |-> EmptyMap]
    [] s = ScalesEmptyToken -> [fatal |-> TRUE, scales |-> EmptyMap]
    [] s = ScalesTrailingColon -> [fatal |-> TRUE, scales |-> EmptyMap]

ScaleErrors == {"objective-scales-format", "objective-scale-convert"}

\* C9: the constructor turns an objective-scales string of an even number
\* of ':'-separated tokens whose every second token is numeric into the map
\* from each first token to the value of the token after it (a repeated
\* name keeps its last value); an odd number of tokens or a scale that is
\* not numeric is a fatal error and no trainer is made.
C9_ScaleMapParsed ==
  (pc # "new" /\ err # "config-assert") =>
    IF ExpectedScales(config_.objective_scales_str).fatal
    THEN pc = "fatal" /\ err \in ScaleErrors /\ ~last.called
    ELSE /\ err \notin ScaleErrors
         /\ objective_scales_ = ExpectedScales(config_.objective_scales_str).scales

\* C9, its case: "a:1:a:2:a-reg:3" was parsed into a map of two names.
C9_RepeatedNameParsed ==
  /\ pc = "ready"
  /\ config_.objective_scales_str = ScalesRepeated
  /\ DOMAIN objective_scales_ = {<<"a">>, <<"a">> \o RegSuffix}
  /\ objective_scales_[<<"a">>] = F(2)

\* ------------------------------------------------------------------------
\* Properties of one tracker (SpecStats)
\* ------------------------------------------------------------------------
PhaseTotals(info) ==
  Contribution(info.tot_weight_this_phase, info.tot_objf_this_phase,
               info.tot_aux_objf_this_phase)

AllTimeTotals(info) == Contribution(info.tot_weight, info.tot_objf, info.tot_aux_objf)

\* n calls were made on the fresh tracker, with the counters 0, 1, ..., n - 1
SequentialCalls(n) ==
  /\ tracker.sequential
  /\ ~tracker.failed
  /\ tracker.ncalls = n

\* C4, as amended: on a fresh tracker driven with the counters 0, 1, 2, ...
\* and minibatches_per_phase = N, the first N calls log no report and leave
\* the phase totals and the all-time totals equal to the sum of the N
\* calls; call N + 1 logs the one report, of phase 0 and of the first N
\* calls, and leaves the phase totals equal to its own contribution and
\* the all-time totals equal to the sum of the N + 1 calls.
C4_ReportOnCallAfterPhase ==
  /\ SequentialCalls(tracker.minibatches_per_phase) =>
       /\ tracker.nreports = 0
       /\ PhaseTotals(tracker.info) = tracker.sum
       /\ AllTimeTotals(tracker.info) = tracker.sum
  /\ SequentialCalls(tracker.minibatches_per_phase + 1) =>
       /\ tracker.nreports = 1
       /\ tracker.last_report.phase = 0
       /\ tracker.last_report.frames = FSub(tracker.sum.w, tracker.last_call.w)
       /\ PhaseTotals(tracker.info) = tracker.last_call
       /\ AllTimeTotals(tracker.info) = tracker.sum

\* C4, its case: with the phase length of the driven tracker, call N + 1
\* logged the report of N calls of nonzero weight.
C4_ReportLogged ==
  /\ SequentialCalls(tracker.minibatches_per_phase + 1)
  /\ tracker.minibatches_per_phase = DrivenPhaseLen
  /\ tracker.nreports = 1
  /\ tracker.last_report.frames # F(0)

\* C4, as stated: N calls in a row with minibatches_per_phase = N log
\* exactly one report, leave the phase totals reset and the all-time totals
\* equal to the sum of the N calls.
C4_OneReportInNCalls ==
  SequentialCalls(tracker.minibatches_per_phase) =>
    /\ tracker.nreports = 1
    /\ PhaseTotals(tracker.info) = NoContribution
    /\ AllTimeTotals(tracker.info) = tracker.sum

\* C8: after non-failing UpdateStats calls the all-time totals are the sum
\* of all contributions, the phase totals are the sum of the contributions
\* of the calls whose phase is the current phase, and the latest report is
\* of the phase before the current one, with that phase's totals.
C8_TotalsAreSums ==
  ~tracker.failed =>
    /\ AllTimeTotals(tracker.info) = tracker.sum
    /\ PhaseTotals(tracker.info) =
         BucketOf(tracker.by_phase, tracker.info.current_phase)
    /\ tracker.nreports > 0 =>
         /\ tracker.last_report.phase = tracker.info.current_phase - 1
         /\ tracker.last_report.frames =
              BucketOf(tracker.by_phase, tracker.last_report.phase).w
         /\ tracker.last_report.objf =
              FDiv(BucketOf(tracker.by_phase, tracker.last_report.phase).objf,
                   BucketOf(tracker.by_phase, tracker.last_report.phase).w)
         /\ tracker.last_report.aux_objf =
              FDiv(BucketOf(tracker.by_phase, tracker.last_report.phase).aux,
                   BucketOf(tracker.by_phase, tracker.last_report.phase).w)

\* C8, its case: two reports were logged, the latest of a phase of nonzero
\* weight, and the current phase holds less than the all-time totals.
C8_TwoPhasesReported ==
  /\ ~tracker.failed
  /\ tracker.nreports = 2
  /\ tracker.last_report.frames # F(0)
  /\ PhaseTotals(tracker.info) # AllTimeTotals(tracker.info)
  /\ PhaseTotals(tracker.info) # NoContribution

\* ------------------------------------------------------------------------
\* Properties of ComputeObjectiveFunction (SpecObjf)
\* ------------------------------------------------------------------------
\* The sum over all elements of x * y
SumOfProducts(X, Y) ==
  SumSeq([r \in DOMAIN X |-> SumSeq([c \in DOMAIN X[r] |-> FMul(X[r][c], Y[r][c])])])

SumOfElements(X) == SumSeq([r \in DOMAIN X |-> SumSeq(X[r])])

LinearCall ==
  /\ objf.called
  /\ objf.objective_type = "kLinear"
  /\ NumCols(objf.supervision) = NumCols(objf.output)

\* C10: for the linear objective and matching dimensions, whichever way
\* the supervision is stored and whether or not the derivative is asked
\* for, tot_weight is the sum of the supervision, tot_objf the sum of
\* x * y, and the derivative, when asked for, the supervision itself.
C10_LinearSameInEveryStorage ==
  LinearCall =>
    /\ objf.result.err = "none"
    /\ objf.result.tot_weight = SumOfElements(objf.supervision)
    /\ objf.result.tot_objf = SumOfProducts(objf.supervision, objf.output)
    /\ objf.want_deriv => objf.result.deriv = objf.supervision

\* C10, its case: a compressed supervision of two rows, with a zero and a
\* negative element, gave a nonzero objective and its derivative.
C10_CompressedWithDeriv ==
  /\ LinearCall
  /\ objf.encoding = "kCompressedMatrix"
  /\ objf.want_deriv
  /\ NumRows(objf.supervision) = 2
  /\ objf.supervision[1][1] = F(0)
  /\ objf.supervision[2][2] = Rat(-1, 2)
  /\ objf.result.tot_objf # F(0)
  /\ objf.result.deriv = objf.supervision

\* ------------------------------------------------------------------------
\* Properties of the steps of one Train call (Spec)
\* ------------------------------------------------------------------------
\* Where the log of the latest Train call holds the event ev
EventIndexes(ev) == {i \in DOMAIN last.log : last.log[i].ev = ev}

\* Where it holds the event ev of the output called name
EventIndexesOf(ev, name) ==
  {i \in DOMAIN last.log : last.log[i].ev = ev /\ last.log[i].name = name}

\* C11: in every Train call the forward pass comes first; the objective of
\* an output is computed before its gradient is supplied, and the gradient
\* is supplied before the output's statistics are updated and before its
\* regularizer is processed; every gradient is supplied before the backward
\* pass; the update rule comes after the backward pass.
C11_StepsInOrder ==
  last.called =>
    /\ EventIndexes("forward") = {1}
    /\ \A i \in EventIndexes("deriv") :
         /\ IsRegName(last.log[i].name) \/
              \E j \in EventIndexesOf("objective", last.log[i].name) : j < i
         /\ \A j \in EventIndexesOf("stats", last.log[i].name) : i < j
         /\ \A j \in EventIndexesOf("regularizer", last.log[i].name \o RegSuffix) :
              i < j
         /\ \A b \in EventIndexes("backward") : i < b
    /\ \A i \in EventIndexes("stats") :
         EventIndexesOf("deriv", last.log[i].name) # {}
    /\ \A i \in EventIndexes("regularizer") :
         EventIndexesOf("deriv", PrimaryOf(last.log[i].name)) # {}
    /\ \A u \in EventIndexes("update") :
         \E b \in EventIndexes("backward") : b < u
    /\ last.completed <=> EventIndexes("backward") # {}

\* C11, its case: a completed Train call with a DeltaModel on an example of
\* two outputs, each with a regularizer.
C11_AllStepsTaken ==
  /\ last.called
  /\ last.completed
  /\ Cardinality(EventIndexes("objective")) = 2
  /\ Cardinality(EventIndexes("regularizer")) = 2
  /\ Cardinality(EventIndexes("deriv")) = 4
  /\ Cardinality(EventIndexes("stats")) = 4
  /\ EventIndexes("update") = {Len(last.log)}

\* ------------------------------------------------------------------------
\* Properties of the scaling of primary outputs (Spec)
\* ------------------------------------------------------------------------
\* The scale-map entry of name, 1 without one
OwnScale(name) ==
  IF name \in DOMAIN objective_scales_ THEN objective_scales_[name] ELSE F(1)

\* The entry of the latest example that is called name
IoOf(name) ==
  last.run.eg[CHOOSE i \in DOMAIN last.run.eg : last.run.eg[i].name = name]

\* What ComputeObjectiveFunction gives for the output called name
RawObjective(name) ==
  ComputeObjectiveFunction(IoOf(name).features,
                           GetNode(GetNodeIndex(name)).objective_type,
                           last.run.outputs[name], TRUE)

\* The weight of row r of the derivative of the output called name
DerivWeight(name, r) ==
  IF config_.apply_deriv_weights /\ Len(IoOf(name).deriv_weights) # 0
  THEN IoOf(name).deriv_weights[r]
  ELSE F(1)

\* The derivative of the output called name, each row times its weight and
\* all of it times the scale of the output
ScaledDeriv(name) ==
  [r \in DOMAIN RawObjective(name).deriv |->
     [c \in DOMAIN RawObjective(name).deriv[r] |->
        FMul(OwnScale(name),
             FMul(DerivWeight(name, r), RawObjective(name).deriv[r][c]))]]

\* C12: for every primary output a Train call processes, the objective
\* recorded and the gradient supplied are the computed ones times the
\* output's scale-map entry, or times 1 without an entry, so that no other
\* key of the map enters them; and the scale map stays what the
\* constructor parsed.
C12_PrimaryScaledByOwnEntry ==
  last.called =>
    /\ \A i \in DOMAIN last.updates :
         ~IsRegName(last.updates[i].name) =>
           /\ last.updates[i].raw_objf = RawObjective(last.updates[i].name).tot_objf
           /\ last.updates[i].weight = RawObjective(last.updates[i].name).tot_weight
           /\ last.updates[i].objf =
                FMul(RawObjective(last.updates[i].name).tot_objf,
                     OwnScale(last.updates[i].name))
    /\ \A i \in DOMAIN last.accepted :
         ~IsRegName(last.accepted[i].name) =>
           last.accepted[i].deriv = ScaledDeriv(last.accepted[i].name)
    /\ objective_scales_ = ExpectedScales(config_.objective_scales_str).scales

\* C12, its case: with the scales "a:2.0:b:0.5" a Train call on an example
\* whose only output is a (the key b matching nothing) recorded twice the
\* computed objective and supplied twice the computed gradient.
C12_ScaledAndUnusedKey ==
  /\ last.called
  /\ last.completed
  /\ config_.objective_scales_str = ScalesTwo
  /\ <<"b">> \in DOMAIN objective_scales_
  /\ Len(last.updates) = 1
  /\ last.updates[1].name = <<"a">>
  /\ last.updates[1].objf = FMul(F(2), last.updates[1].raw_objf)
  /\ last.updates[1].objf # F(0)
  /\ last.accepted[1].deriv = <<Row(0, 2)>>

\* ------------------------------------------------------------------------
\* C13: the quadratic objective
\* ------------------------------------------------------------------------
QuadraticCall ==
  /\ objf.called
  /\ objf.objective_type = "kQuadratic"
  /\ NumCols(objf.supervision) = NumCols(objf.output)

\* x - y, element by element
ElementwiseDiff(X, Y) ==
  [r \in DOMAIN X |-> [c \in DOMAIN X[r] |-> FSub(X[r][c], Y[r][c])]]

\* The sum over all elements of (x - y)^2
SumOfSquaredDiffs(X, Y) ==
  SumOfProducts(ElementwiseDiff(X, Y), ElementwiseDiff(X, Y))

\* C13: for the quadratic objective and matching dimensions, whichever way
\* the supervision is stored and whether or not the derivative is asked
\* for, tot_weight is the number of rows and tot_objf is -1/2 times the sum
\* of (x - y)^2 over all elements (x supervision, y output); the
\* derivative, when asked for, is x - y element by element.
C13_QuadraticValues ==
  QuadraticCall =>
    /\ objf.result.err = "none"
    /\ objf.result.tot_weight = F(NumRows(objf.supervision))
    /\ objf.result.tot_objf =
         FMul(Rat(-1, 2), SumOfSquaredDiffs(objf.supervision, objf.output))
    /\ objf.want_deriv =>
         objf.result.deriv = ElementwiseDiff(objf.supervision, objf.output)

\* C13, its case: the supervision (1, 2) against the output (3/2, 3/2) gave
\* the objective -1/4, the weight 1 and the derivative (-1/2, 1/2).
C13_ExampleComputed ==
  /\ QuadraticCall
  /\ objf.want_deriv
  /\ objf.supervision = <<<<F(1), F(2)>>>>
  /\ objf.output = <<<<Rat(3, 2), Rat(3, 2)>>>>
  /\ objf.result.tot_objf = Rat(-1, 4)
  /\ objf.result.tot_weight = F(1)
  /\ objf.result.deriv = <<<<Rat(-1, 2), Rat(1, 2)>>>>

\* ------------------------------------------------------------------------
\* C14: the update rule on a finite delta
\* ------------------------------------------------------------------------
\* The latest Train call completed with a DeltaModel whose norm after the
\* backward pass is finite.
FiniteDeltaTrain ==
  /\ last.called
  /\ last.completed
  /\ last.delta_after_backward # NULL
  /\ AllFinite(last.delta_after_backward)
  /\ IsFinite(FSqrt(SqNorm(last.delta_after_backward)))

\* The latest Train call had its step rescaled by clipping.
StepClipped ==
  /\ FNeq(config_.max_param_change, F(0))
  /\ FGt(UnclippedSq, MaxSq)

\* The final scale of the latest Train call: 1 - momentum, times
\* max_param_change / ((1 - momentum) * ||D||) when the step was clipped.
FinalScale ==
  IF StepClipped
  THEN FDiv(FMul(FSub(F(1), config_.momentum), config_.max_param_change),
            FMul(FSub(F(1), config_.momentum),
                 FSqrt(SqNorm(last.delta_after_backward))))
  ELSE FSub(F(1), config_.momentum)

\* C14: in every completed Train call with a DeltaModel and a finite delta
\* norm, D (the DeltaModel after the backward pass) is the retained delta
\* plus the gradient of the call, the model after the call is the model
\* before plus s * D for the final scale s, and the retained DeltaModel is
\* momentum * D, clipped or not.
C14_ModelPlusScaledDelta ==
  FiniteDeltaTrain =>
    /\ last.delta_after_backward =
         VecAdd(last.delta_before, last.run.model_grad)
    /\ nnet_ = VecAdd(last.nnet_before,
                      VecScale(FinalScale, last.delta_after_backward))
    /\ delta_nnet_ = VecScale(config_.momentum, last.delta_after_backward)

\* C14, its case: with momentum 1/2 the second Train call found a retained
\* delta, its step was clipped to a scale below 1 - momentum, the model
\* moved and half of D was retained.
C14_ClippedWithRetainedDelta ==
  /\ FiniteDeltaTrain
  /\ config_.momentum = Rat(1, 2)
  /\ last.ncalls = 2
  /\ last.delta_before # VecZero(last.delta_before)
  /\ StepClipped
  /\ FGt(FSub(F(1), config_.momentum), FinalScale)
  /\ nnet_ # last.nnet_before
  /\ delta_nnet_ = VecScale(Rat(1, 2), last.delta_after_backward)
  /\ delta_nnet_ # VecZero(delta_nnet_)

\* ------------------------------------------------------------------------
\* C15: a "-reg" node that is not an output node
\* ------------------------------------------------------------------------
\* The node of this name exists and is an output node.
IsOutputName(name) ==
  /\ GetNodeIndex(name) >= 0
  /\ IsOutputNode(GetNodeIndex(name))

\* The node of this name exists and is not an output node.
IsNonOutputName(name) ==
  /\ GetNodeIndex(name) >= 0
  /\ ~IsOutputNode(GetNodeIndex(name))

\* The example holds an output whose "-reg" node exists in the model
\* without being an output node.
NonOutputRegIn(eg) ==
  \E i \in DOMAIN eg :
    /\ IsOutputName(eg[i].name)
    /\ IsNonOutputName(eg[i].name \o RegSuffix)

NonOutputRegTrain ==
  /\ last.called
  /\ config_.add_regularizer
  /\ NonOutputRegIn(last.run.eg)

\* C15 as stated: with add_regularizer, a Train call on an example with an
\* output whose "-reg" node exists but is not an output node skips the
\* regularizer and completes normally.
C15_NonOutputRegSkipped ==
  NonOutputRegTrain =>
    /\ last.completed
    /\ pc = "ready"

\* C15, amended: such a Train call never completes; the process ends in
\* the assertion that the "-reg" node is an output node (or, before it is
\* reached, in the phase assertion of the output's own statistics), with
\* no regularizer computed, before the backward pass and with the model
\* and the DeltaModel as they were.  A regularizer is computed only for a
\* node that exists and is an output node.
C15_NonOutputRegIsFatal ==
  /\ NonOutputRegTrain =>
       /\ ~last.completed
       /\ pc = "fatal"
       /\ err \in {"reg-assert", "phase-assert"}
       /\ EventIndexes("backward") = {}
       /\ nnet_ = last.nnet_before
       /\ delta_nnet_ = last.delta_before
  /\ last.called =>
       \A i \in EventIndexes("regularizer") :
         /\ config_.add_regularizer
         /\ IsOutputName(last.log[i].name)

\* C15, its case: with add_regularizer, Train on the output d, whose node
\* d-reg is not an output node, recorded the statistics of d and then died
\* in the assertion.
C15_RegAssertReached ==
  /\ NonOutputRegTrain
  /\ pc = "fatal"
  /\ err = "reg-assert"
  /\ Len(last.run.eg) = 1
  /\ last.run.eg[1].name = <<"d">>
  /\ Len(last.updates) = 1
  /\ last.updates[1].name = <<"d">>
  /\ EventIndexes("regularizer") = {}

\* ------------------------------------------------------------------------
\* C16: the minibatch counter
\* ------------------------------------------------------------------------
\* C16 as stated: after n completed Train calls the minibatch counter is n,
\* whatever the number of outputs and regularizers of the examples.
C16_CounterCountsTrainCalls ==
  (last.called /\ last.completed) =>
    num_minibatches_processed_ = last.ncalls

\* C16, the failing case: one completed Train call on an example with the
\* two outputs a and b, without regularizers, left the counter at 2.
C16_CounterCountsOutputs ==
  /\ last.called
  /\ last.completed
  /\ last.ncalls = 1
  /\ ~config_.add_regularizer
  /\ Len(last.run.eg) = 2
  /\ Len(last.updates) = 2
  /\ num_minibatches_processed_ = 2

\* ------------------------------------------------------------------------
\* C17: the reports of NnetTrainer::PrintTotalStats
\* ------------------------------------------------------------------------
\* C17 as stated: PrintTotalStats emits the total-statistics report of
\* every output name in the statistics table, in whatever order the table
\* iterates and whatever the total weights are.
C17_EveryOutputReported ==
  print_result.called => print_result.printed = DOMAIN objf_info_

\* C17, the failing case: with the two outputs a and b tracked, both of
\* nonzero total weight, PrintTotalStats returned true having reported
\* only one of them.
C17_SecondReportSkipped ==
  /\ print_result.called
  /\ print_result.ans
  /\ DOMAIN objf_info_ = {<<"a">>, <<"b">>}
  /\ \A name \in DOMAIN objf_info_ : FNeq(objf_info_[name].tot_weight, F(0))
  /\ Cardinality(print_result.printed) = 1

\* ------------------------------------------------------------------------
\* C18: an example entry that cannot be processed
\* ------------------------------------------------------------------------
\* The entry names no node of the network.
UnknownNodeEntry(io) == GetNodeIndex(io.name) < 0

\* The entry is for an output node whose objective type is not handled.
UnhandledTypeEntry(io) ==
  /\ IsOutputName(io.name)
  /\ GetNode(GetNodeIndex(io.name)).objective_type \notin {"kLinear", "kQuadratic"}

\* The entry is for an output node and its supervision has another number
\* of columns than the output computed for the node.
WrongDimEntry(io, outputs) ==
  /\ IsOutputName(io.name)
  /\ GeneralNumCols(io.features) # NumCols(outputs[io.name])

FailingEntry(io, outputs) ==
  \/ UnknownNodeEntry(io)
  \/ UnhandledTypeEntry(io)
  \/ WrongDimEntry(io, outputs)

\* The entries of the latest example that cannot be processed
FailingEntries ==
  {i \in DOMAIN last.run.eg : FailingEntry(last.run.eg[i], last.run.outputs)}

\* The statistics table holds for this name what it held before the call.
StatsUntouched(name) ==
  /\ name \in DOMAIN objf_info_ <=> name \in DOMAIN last.info_before
  /\ name \in DOMAIN objf_info_ => objf_info_[name] = last.info_before[name]

\* C18: a Train call on an example with an entry that names an unknown
\* node, or whose output node has an unhandled objective type, or whose
\* supervision has another column count than the output, ends the process
\* before the backward pass and the update rule: the model and the
\* DeltaModel are as before the call and no statistics are recorded for
\* the failing output; the errors of these three kinds arise in no other
\* call.
C18_FatalBeforeBackward ==
  /\ (last.called /\ FailingEntries # {}) =>
       /\ ~last.completed
       /\ pc = "fatal"
       /\ err # "none"
       /\ EventIndexes("backward") = {}
       /\ EventIndexes("update") = {}
       /\ nnet_ = last.nnet_before
       /\ delta_nnet_ = last.delta_before
       /\ \A i \in FailingEntries :
            /\ \A u \in DOMAIN last.updates :
                 last.updates[u].name # last.run.eg[i].name
            /\ StatsUntouched(last.run.eg[i].name)
  /\ err \in {"dim-mismatch", "node-assert", "objf-type"} =>
       /\ last.called
       /\ FailingEntries # {}

\* C18, its case: with a DeltaModel holding a retained delta, the second
\* Train call processed the output a and then died on the three-column
\* supervision of b.
C18_DimMismatchAfterGoodEntry ==
  /\ last.called
  /\ err = "dim-mismatch"
  /\ pc = "fatal"
  /\ last.ncalls = 2
  /\ last.delta_before # NULL
  /\ last.delta_before # VecZero(last.delta_before)
  /\ Len(last.run.eg) = 2
  /\ FailingEntries = {2}
  /\ last.run.eg[2].name = <<"b">>
  /\ Len(last.updates) >= 1
  /\ last.updates[1].name = <<"a">>
  /\ nnet_ = last.nnet_before

====
